---- MODULE Spec2Model ----
(***************************************************************************)
(* Query understanding and hybrid fusion of the movie search engine:       *)
(* RegexParser (query_parser/regex_parser.py), SearchEngine                *)
(* (search_engine.py), BM25Indexer.search / SemanticIndexer.search call    *)
(* interfaces and RRFFusion (fusion/rrf_fusion.py).                        *)
(*                                                                         *)
(* Text is a sequence of atoms.  An atom is a maximal run of word          *)
(* characters (a word, an integer literal, a decimal literal, "80s",       *)
(* "2000s") or a punctuation mark; g = TRUE says that no whitespace        *)
(* separates the atom from the one before it ("7+" is the integer 7        *)
(* followed by a glued "+").  Ratings are held in tenths (7.5 is 75).      *)
(* An optional value (Python None) is the empty sequence, a present        *)
(* value v is <<v>>.                                                       *)
(***************************************************************************)
EXTENDS Integers, Sequences, FiniteSets, TLC

None == << >>
Some(v) == << v >>

\* ------------------------------------------------------------------ atoms
Word(w) == [k |-> "word", w |-> w, n |-> 0, g |-> FALSE]
IntLit(n) == [k |-> "int", w |-> "", n |-> n, g |-> FALSE]
DecLit(t) == [k |-> "dec", w |-> "", n |-> t, g |-> FALSE]
NNs(n) == [k |-> "NNs", w |-> "", n |-> n, g |-> FALSE]
YYYYs(n) == [k |-> "YYYYs", w |-> "", n |-> n, g |-> FALSE]
Punct(p) == [k |-> "punct", w |-> p, n |-> 0, g |-> FALSE]
Glued(a) == [a EXCEPT !.g = TRUE]

\* str.lower() / re.IGNORECASE on the capitalised words of the vocabulary
Lower(w) ==
    CASE w = "War" -> "war"
      [] w = "Late" -> "late"
      [] w = "Rated" -> "rated"
      [] w = "Movies" -> "movies"
      [] OTHER -> w

IsWord(a, ws) == a.k = "word" /\ Lower(a.w) \in ws
IsPunct(a, ps) == a.k = "punct" /\ a.w \in ps
\* \d+(?:\.\d+)? : an integer or decimal literal
IsNumber(a) == a.k \in {"int", "dec"}
\* (?:19|20)\d{2} between word boundaries
IsY4(a) == a.k = "int" /\ a.n >= 1900 /\ a.n <= 2099
\* (?:19|20)\d{2} followed by "s"
IsY4s(a) == a.k = "YYYYs" /\ a.n >= 1900 /\ a.n <= 2099
\* float(match.group(..)), in tenths
Float(a) == IF a.k = "int" THEN a.n * 10 ELSE a.n

\* a text the tokenisation above describes: the first atom follows no
\* other, and two runs of word characters are never glued
WellFormed(s) ==
    \A i \in 1..Len(s) :
        s[i].g => (i > 1 /\ (s[i].k = "punct" \/ s[i - 1].k = "punct"))

\* ---------------------------------------------------------------- regexes
Periods == {"early", "late", "mid"}
RatedWords == {"rated", "rating", "score"}
AboveWords == {"above", "over"}
BelowWords == {"below", "under"}
HighWords == {"highly", "well", "top", "best"}
Operators == {">", ">=", "<", "<="}

At(s, i) == IF i >= 1 /\ i <= Len(s) THEN s[i] ELSE Punct("$")

\* number of atoms the pattern matches when the match starts at atom a,
\* which b, c and d follow and p precedes (0: no match there)
MatchAtoms(pat, a, b, c, d, p) ==
    CASE pat = "year_range" ->
           IF IsY4(a) /\ (IsPunct(b, {"-"}) \/ IsWord(b, {"to"})) /\ IsY4(c)
           THEN 3 ELSE 0
      [] pat = "single_year" -> IF IsY4(a) THEN 1 ELSE 0
      [] pat = "decade" -> IF a.k = "NNs" THEN 1 ELSE 0
      [] pat = "temporal" ->
           IF IsWord(a, Periods) /\ b.k = "NNs" /\ ~b.g THEN 2 ELSE 0
      [] pat = "temporal_full" ->
           IF IsWord(a, Periods) /\ (IsY4(b) \/ IsY4s(b)) /\ ~b.g
           THEN 2 ELSE 0
      [] pat = "rated" ->
           IF IsWord(a, RatedWords) /\ IsNumber(b) /\ ~b.g THEN 2 ELSE 0
      [] pat = "comparison" ->
           IF IsWord(a, AboveWords \cup BelowWords) /\ IsNumber(b) /\ ~b.g
           THEN 2
           ELSE IF IsWord(a, {"more", "less"}) /\ IsWord(b, {"than"})
                   /\ IsNumber(c) /\ ~c.g
                THEN 3 ELSE 0
      [] pat = "operator" ->
           IF IsPunct(a, Operators) /\ a.g /\ p.k # "punct" /\ IsNumber(b)
           THEN 2
           ELSE IF IsNumber(a) /\ IsPunct(b, {"+"}) THEN 2 ELSE 0
      [] pat = "high_rated" ->
           IF IsWord(a, HighWords) /\ IsWord(b, {"rated"}) THEN 2 ELSE 0
      [] pat = "rating_range" ->
           IF IsNumber(a) /\ (IsPunct(b, {"-"}) \/ IsWord(b, {"to"}))
              /\ IsNumber(c)
           THEN (IF IsWord(d, RatedWords) THEN 4 ELSE 3)
           ELSE 0
      [] OTHER -> 0

MatchLen(pat, s, i) ==
    MatchAtoms(pat, At(s, i), At(s, i + 1), At(s, i + 2), At(s, i + 3),
               At(s, i - 1))

\* the least element of a set of positions (0: the set is empty)
Least(S) == IF S = {} THEN 0 ELSE CHOOSE x \in S : \A y \in S : x <= y

\* re.search: the position of the leftmost match (0: None)
Search(pat, s) == Least({ i \in 1..Len(s) : MatchLen(pat, s, i) > 0 })

\* one atom of the result: it stays glued to its new neighbour only if no
\* whitespace stood on either side of what was removed between them
Keep(a, glue) == << [a EXCEPT !.g = a.g /\ glue] >>

\* re.sub(pattern, '', text) followed by .strip() and the collapse of
\* whitespace runs: every non-overlapping match is removed, scanning from
\* the left
RECURSIVE SubFrom(_, _, _, _)
SubStep(pat, s, i, glue, n) ==
    IF n > 0
    THEN SubFrom(pat, s, i + n, glue /\ s[i].g)
    ELSE Keep(s[i], glue) \o SubFrom(pat, s, i + 1, TRUE)

SubFrom(pat, s, i, glue) ==
    IF i > Len(s) THEN << >> ELSE SubStep(pat, s, i, glue, MatchLen(pat, s, i))

Sub(pat, s) == SubFrom(pat, s, 1, TRUE)

\* ------------------------------------------------- RegexParser.extract_*
Period(a) == Lower(a.w)

\* early -> [base, base+4], late -> [base+5, base+9], mid -> [base+3, base+6]
PeriodRange(period, base) ==
    IF period = "early" THEN << base, base + 4 >>
    ELSE IF period = "late" THEN << base + 5, base + 9 >>
    ELSE << base + 3, base + 6 >>

\* (every decade taken for one of the 1900s)
DecadeBase_Nineteen(decade) == 1900 + decade

\* 20s..90s -> 1920s..1990s, 00s and 10s -> 2000s and 2010s
DecadeBase(decade) == IF decade >= 20 THEN 1900 + decade ELSE 2000 + decade

\* (a single year looked for before an explicit range)
YearPass_SingleFirst(s) ==
    IF Search("single_year", s) > 0 THEN "single_year"
    ELSE IF Search("year_range", s) > 0 THEN "year_range"
    ELSE IF Search("decade", s) > 0 THEN "decade"
    ELSE IF Search("temporal", s) > 0 THEN "temporal"
    ELSE IF Search("temporal_full", s) > 0 THEN "temporal_full"
    ELSE "none"

\* the year pass that sets the year fields: each pattern is tried only
\* while year_min is still None ("none": no pattern matches)
YearPass(s) ==
    IF Search("year_range", s) > 0 THEN "year_range"
    ELSE IF Search("single_year", s) > 0 THEN "single_year"
    ELSE IF Search("decade", s) > 0 THEN "decade"
    ELSE IF Search("temporal", s) > 0 THEN "temporal"
    ELSE IF Search("temporal_full", s) > 0 THEN "temporal_full"
    ELSE "none"

\* the years the pass derives from its match at atom i
YearFields(pass, s, i) ==
    CASE pass = "year_range" -> << s[i].n, s[i + 2].n >>
      [] pass = "single_year" -> << s[i].n, s[i].n >>
      [] pass = "decade" -> << DecadeBase(s[i].n), DecadeBase(s[i].n) + 9 >>
      [] pass = "temporal" ->
           PeriodRange(Period(s[i]), DecadeBase(s[i + 1].n))
      [] pass = "temporal_full" ->
           PeriodRange(Period(s[i]), (s[i + 1].n \div 10) * 10)

YearResult(yrs, cleaned) ==
    [year_min |-> Some(yrs[1]), year_max |-> Some(yrs[2]), cleaned |-> cleaned]

YearOfPass(pass, s) ==
    IF pass = "none"
    THEN [year_min |-> None, year_max |-> None, cleaned |-> Sub("none", s)]
    ELSE YearResult(YearFields(pass, s, Search(pass, s)), Sub(pass, s))

\* extract_year_range: [year_min, year_max, cleaned]
extract_year_range(s) == YearOfPass(YearPass(s), s)

\* genre_tokens, in scan order: the canonical name and its words
genre_tokens ==
    << [name |-> "adventure", words |-> << "adventure" >>],
       [name |-> "animation", words |-> << "animation" >>],
       [name |-> "children", words |-> << "children" >>],
       [name |-> "comedy", words |-> << "comedy" >>],
       [name |-> "crime", words |-> << "crime" >>],
       [name |-> "documentary", words |-> << "documentary" >>],
       [name |-> "drama", words |-> << "drama" >>],
       [name |-> "family", words |-> << "family" >>],
       [name |-> "fantasy", words |-> << "fantasy" >>],
       [name |-> "film-noir", words |-> << "film-noir" >>],
       [name |-> "history", words |-> << "history" >>],
       [name |-> "horror", words |-> << "horror" >>],
       [name |-> "imax", words |-> << "imax" >>],
       [name |-> "music", words |-> << "music" >>],
       [name |-> "musical", words |-> << "musical" >>],
       [name |-> "mystery", words |-> << "mystery" >>],
       [name |-> "romance", words |-> << "romance" >>],
       [name |-> "sci-fi", words |-> << "sci-fi" >>],
       [name |-> "science fiction", words |-> << "science", "fiction" >>],
       [name |-> "thriller", words |-> << "thriller" >>],
       [name |-> "tv movie", words |-> << "tv", "movie" >>],
       [name |-> "war", words |-> << "war" >>],
       [name |-> "western", words |-> << "western" >>] >>

\* genre_synonyms, in insertion order (the second "scifi" key of the
\* literal overwrites the first in place)
genre_synonyms ==
    << [name |-> "romance", words |-> << "rom-com" >>],
       [name |-> "romance", words |-> << "romcom" >>],
       [name |-> "romance", words |-> << "romantic" >>],
       [name |-> "sci-fi", words |-> << "sci-fi" >>],
       [name |-> "science fiction", words |-> << "science", "fiction" >>],
       [name |-> "sci-fi", words |-> << "scifi" >>],
       [name |-> "action", words |-> << "action" >>],
       [name |-> "comedy", words |-> << "comedy" >>],
       [name |-> "drama", words |-> << "drama" >>],
       [name |-> "horror", words |-> << "horror" >>],
       [name |-> "thriller", words |-> << "thriller" >>],
       [name |-> "war", words |-> << "war" >>],
       [name |-> "western", words |-> << "western" >>],
       [name |-> "fantasy", words |-> << "fantasy" >>],
       [name |-> "mystery", words |-> << "mystery" >>],
       [name |-> "crime", words |-> << "crime" >>],
       [name |-> "adventure", words |-> << "adventure" >>],
       [name |-> "animation", words |-> << "animation" >>],
       [name |-> "family", words |-> << "family" >>],
       [name |-> "musical", words |-> << "musical" >>],
       [name |-> "documentary", words |-> << "documentary" >>] >>

\* r'\b' + re.escape(genre) + r'\b' matched at atom i: 0 or the word count
MatchWords(ws, s, i) ==
    IF \A j \in 1..Len(ws) : IsWord(At(s, i + j - 1), {ws[j]})
    THEN Len(ws) ELSE 0

FoundWords(ws, s) == \E i \in 1..Len(s) : MatchWords(ws, s, i) > 0

RECURSIVE SubWordsFrom(_, _, _, _)
SubWordsStep(ws, s, i, glue, n) ==
    IF n > 0
    THEN SubWordsFrom(ws, s, i + n, glue /\ s[i].g)
    ELSE Keep(s[i], glue) \o SubWordsFrom(ws, s, i + 1, TRUE)

SubWordsFrom(ws, s, i, glue) ==
    IF i > Len(s) THEN << >>
    ELSE SubWordsStep(ws, s, i, glue, MatchWords(ws, s, i))

SubWords(ws, s) == SubWordsFrom(ws, s, 1, TRUE)

\* the first entry of the table that occurs in the text (0: none does)
FirstEntry(table, s) ==
    Least({ e \in 1..Len(table) : FoundWords(table[e].words, s) })

\* (the matched words themselves returned as the genre)
GenreOfEntry_Raw(entry, s) ==
    [genre |-> Some(entry.words[1]), cleaned |-> SubWords(entry.words, s)]

GenreOfEntry(entry, s) ==
    [genre |-> Some(entry.name), cleaned |-> SubWords(entry.words, s)]

GenreOfEntries(e, y, s) ==
    IF e > 0 THEN GenreOfEntry(genre_tokens[e], s)
    ELSE IF y > 0 THEN GenreOfEntry(genre_synonyms[y], s)
    ELSE [genre |-> None, cleaned |-> SubWords(<< >>, s)]

\* extract_genre: [genre, cleaned]; the synonyms are tried only if no
\* genre token matches
extract_genre(s) ==
    GenreOfEntries(FirstEntry(genre_tokens, s), FirstEntry(genre_synonyms, s), s)

\* the rating pass that sets the rating fields: each pattern is tried only
\* while rating_min is still None
RatingPass(s) ==
    IF Search("rated", s) > 0 THEN "rated"
    ELSE IF Search("comparison", s) > 0 THEN "comparison"
    ELSE IF Search("operator", s) > 0 THEN "operator"
    ELSE IF Search("high_rated", s) > 0 THEN "high_rated"
    ELSE IF Search("rating_range", s) > 0 THEN "rating_range"
    ELSE "none"

\* the ratings (in tenths) the pass derives from its match of n atoms at
\* atom i
RatingFields(pass, s, i, n) ==
    CASE pass = "rated" -> << Float(s[i + 1]), Float(s[i + 1]) >>
      [] pass = "comparison" ->
           IF IsWord(s[i], AboveWords \cup {"more"})
           THEN << Float(s[i + n - 1]), 100 >>
           ELSE << 0, Float(s[i + n - 1]) >>
      [] pass = "operator" ->
           IF IsNumber(s[i]) THEN << Float(s[i]), 100 >>
           ELSE IF s[i].w \in {">=", ">"}
           THEN << Float(s[i + 1]), 100 >>
           ELSE << 0, Float(s[i + 1]) >>
      [] pass = "high_rated" -> << 70, 100 >>
      [] pass = "rating_range" -> << Float(s[i]), Float(s[i + 2]) >>

RatingResult(r, cleaned) ==
    [rating_min |-> Some(r[1]), rating_max |-> Some(r[2]), cleaned |-> cleaned]

RatingAt(pass, s, i) ==
    RatingResult(RatingFields(pass, s, i, MatchLen(pass, s, i)), Sub(pass, s))

\* (a rating of zero where no pattern matched)
RatingOfPass_Zero(pass, s) ==
    IF pass = "none"
    THEN [rating_min |-> Some(0), rating_max |-> None, cleaned |-> Sub("none", s)]
    ELSE RatingAt(pass, s, Search(pass, s))

RatingOfPass(pass, s) ==
    IF pass = "none"
    THEN [rating_min |-> None, rating_max |-> None, cleaned |-> Sub("none", s)]
    ELSE RatingAt(pass, s, Search(pass, s))

\* extract_rating: [rating_min, rating_max, cleaned]
extract_rating(s) == RatingOfPass(RatingPass(s), s)

\* whoosh StandardAnalyzer: tokens \w+(\.?\w+)*, lowercased, without the
\* analyzer's stop words and without tokens shorter than two characters
STOP_WORDS ==
    {"a", "an", "and", "are", "as", "at", "be", "by", "can", "for", "from",
     "have", "if", "in", "is", "it", "may", "not", "of", "on", "or", "tbd",
     "that", "the", "this", "to", "us", "we", "when", "will", "with", "yet",
     "you", "your"}

additional_tokens ==
    {"movies", "movie", "genre", "director", "cast", "actor", "actors",
     "characters", "films", "film"}

\* the tokens of one atom: a hyphen splits a word, punctuation yields none
HyphenParts(w) ==
    CASE w = "sci-fi" -> << "sci", "fi" >>
      [] w = "film-noir" -> << "film", "noir" >>
      [] w = "rom-com" -> << "rom", "com" >>
      [] OTHER -> << w >>

WordTokens(ps) == [j \in 1..Len(ps) |-> Word(ps[j])]

AtomTokens(a) ==
    CASE a.k = "word" -> WordTokens(HyphenParts(Lower(a.w)))
      [] a.k = "punct" -> << >>
      [] OTHER -> << [a EXCEPT !.g = FALSE] >>

\* StopFilter(minsize=2): a one-digit integer is a one-character token
Analyzed(tok) ==
    /\ ~(tok.k = "int" /\ tok.n < 10)
    /\ ~(tok.k = "word" /\ tok.w \in STOP_WORDS)

RECURSIVE Tokenize(_)
Tokenize(s) ==
    IF s = << >> THEN << >> ELSE AtomTokens(Head(s)) \o Tokenize(Tail(s))

Surviving(tok) ==
    Analyzed(tok) /\ ~(tok.k = "word" /\ tok.w \in additional_tokens)

\* remove_stop_words: the surviving tokens, which " ".join separates by
\* single spaces
remove_stop_words(s) == SelectSeq(Tokenize(s), Surviving)

ParseResult(y, ge, r) ==
    [search_term |-> remove_stop_words(r.cleaned),
     filters |-> [year_min |-> y.year_min, year_max |-> y.year_max,
                  genre |-> ge.genre,
                  rating_min |-> r.rating_min, rating_max |-> r.rating_max]]

ParseRating(y, ge) == ParseResult(y, ge, extract_rating(ge.cleaned))

ParseGenre(y) == ParseRating(y, extract_genre(y.cleaned))

\* (every pass run on the text as given)
parse_Unthreaded(s) ==
    ParseResult(extract_year_range(s), extract_genre(s), extract_rating(s))

\* RegexParser.parse: year, then genre, then rating, each on what the
\* pass before it left
parse(s) == ParseGenre(extract_year_range(s))

\* ------------------------------------------------------------- RRFFusion
\* A channel result (a dict in insertion order, best hit first) is a
\* sequence of [id, score]; channel scores are held in thousandths.
Ids(r) == { r[i].id : i \in 1..Len(r) }

\* (ranks counted from the end of the result)
Index_FromEnd(r, id) == CHOOSE i \in 0..(Len(r) - 1) : r[Len(r) - i].id = id

\* list.index(doc_id)
Index(r, id) == CHOOSE i \in 0..(Len(r) - 1) : r[i + 1].id = id

Max2(a, b) == IF a >= b THEN a ELSE b

RECURSIVE Product(_, _)
Product(k, n) == IF n = 0 THEN 1 ELSE (k + n - 1) * Product(k, n - 1)

\* raw scores are held as integer multiples of 1 / (10 * Scale): Scale is
\* the product of every k + rank that a present document can have
Scale(k, b, s) == Product(k, Max2(Len(b), Len(s)))

\* 1 / (k + rank), in units of 1 / Scale
Recip(k, rank, scale) == scale \div (k + rank)

\* (the semantic contribution subtracted instead of added)
RawScore_Difference(cfg, b, s, id) ==
    (IF id \in Ids(b)
     THEN cfg.bm25_weight * Recip(cfg.k, Index(b, id), Scale(cfg.k, b, s))
     ELSE 0)
    - (IF id \in Ids(s)
       THEN cfg.semantic_weight
            * Recip(cfg.k, Index(s, id), Scale(cfg.k, b, s))
       ELSE 0)

\* (an absent channel contributing at the penalty rank instead of nothing)
RawScore_Penalized(cfg, b, s, id) ==
    cfg.bm25_weight
        * Recip(cfg.k, IF id \in Ids(b) THEN Index(b, id) ELSE 100,
                Scale(cfg.k, b, s))
    + cfg.semantic_weight
        * Recip(cfg.k, IF id \in Ids(s) THEN Index(s, id) ELSE 100,
                Scale(cfg.k, b, s))

\* the raw weighted RRF score of one document (weights in tenths)
RawScore(cfg, b, s, id) ==
    LET in_bm25 == id \in Ids(b)
        in_semantic == id \in Ids(s)
        scale == Scale(cfg.k, b, s)
        rank_bm25 == IF in_bm25 THEN Index(b, id) ELSE 100
        rank_semantic == IF in_semantic THEN Index(s, id) ELSE 100
        bm25_score == IF in_bm25
                      THEN cfg.bm25_weight * Recip(cfg.k, rank_bm25, scale)
                      ELSE 0
        semantic_score == IF in_semantic
                          THEN cfg.semantic_weight
                               * Recip(cfg.k, rank_semantic, scale)
                          ELSE 0
    IN bm25_score + semantic_score

\* (a document of both channels credited to the lexical one)
Source_BothAsBm25(b, s, id) == IF id \in Ids(b) THEN "bm25" ELSE "semantic"

Source(b, s, id) ==
    IF id \in Ids(b) /\ id \in Ids(s) THEN "both"
    ELSE IF id \in Ids(b) THEN "bm25"
    ELSE "semantic"

SetMax(S) == CHOOSE x \in S : \A y \in S : y <= x
SetMin(S) == CHOOSE x \in S : \A y \in S : x <= y

\* (equal scores normalized to 0 instead of 1)
Normalized_ZeroWhenFlat(cfg, b, s, id) ==
    LET scores == { RawScore(cfg, b, s, d) : d \in Ids(b) \cup Ids(s) }
    IN IF SetMax(scores) = SetMin(scores)
       THEN [num |-> 0, den |-> 1]
       ELSE [num |-> RawScore(cfg, b, s, id) - SetMin(scores),
             den |-> SetMax(scores) - SetMin(scores)]

\* the normalized score of one document, a fraction num / den
Normalized(cfg, b, s, id) ==
    LET scores == { RawScore(cfg, b, s, d) : d \in Ids(b) \cup Ids(s) }
        max_score == SetMax(scores)
        min_score == SetMin(scores)
    IN IF max_score = min_score
       THEN [num |-> 1, den |-> 1]
       ELSE [num |-> RawScore(cfg, b, s, id) - min_score,
             den |-> max_score - min_score]

\* a / b > c / d for positive denominators
FracGreater(x, y) ==
    IF x.den = y.den THEN x.num > y.num ELSE x.num * y.den > y.num * x.den

Entry(cfg, b, s, id) ==
    [id |-> id, score |-> Normalized(cfg, b, s, id), source |-> Source(b, s, id)]

\* (the list returned as built, without the sort)
fuse_Unsorted(cfg, b, s) ==
    LET all_ids == Ids(b) \cup Ids(s)
        n == Cardinality(all_ids)
    IN { out \in [1..n -> { Entry(cfg, b, s, id) : id \in all_ids }] :
           \A i, j \in 1..n : i # j => out[i].id # out[j].id }

\* (only the documents common to both channels)
fuse_Common(cfg, b, s) ==
    LET all_ids == Ids(b) \cap Ids(s)
        n == Cardinality(all_ids)
    IN { out \in [1..n -> { Entry(cfg, b, s, id) : id \in all_ids }] :
           /\ \A i, j \in 1..n : i # j => out[i].id # out[j].id
           /\ \A i \in 1..(n - 1) : ~FracGreater(out[i + 1].score, out[i].score) }

\* sorted(normalized_scores, key=score, reverse=True) of a list built in
\* the iteration order of set(bm25) | set(semantic): the sort is stable,
\* and the iteration order of a set of document ids is not fixed by the
\* program, so documents of equal score may come out in any order
fuse(cfg, b, s) ==
    LET all_ids == Ids(b) \cup Ids(s)
        n == Cardinality(all_ids)
    IN { out \in [1..n -> { Entry(cfg, b, s, id) : id \in all_ids }] :
           /\ \A i, j \in 1..n : i # j => out[i].id # out[j].id
           /\ \A i \in 1..(n - 1) : ~FracGreater(out[i + 1].score, out[i].score) }

\* ----------------------------------------------------------- SearchEngine
\* round(score, 3) of a fused score, in thousandths
Round3(x) == (2000 * x.num + x.den) \div (2 * x.den)

\* the parameters BM25Indexer.search declares besides self
Bm25SearchParams == {"query_text", "filters", "limit", "enable_fuzzy"}

\* the keyword arguments _search_bm25 passes to it
Bm25CallKwargs == {"limit", "enable_fuzzy", "require_all_terms", "apply_filters"}

\* Python binds the call only if every keyword names a parameter
Bm25CallBinds == Bm25CallKwargs \subseteq Bm25SearchParams

\* the tagging of a single channel's result, lines 302 and 328
Tagged(r, source) ==
    [i \in 1..Len(r) |->
        [id |-> r[i].id, score |-> [num |-> r[i].score, den |-> 1000],
         source |-> source]]

Min2(a, b) == IF a <= b THEN a ELSE b

\* _format_results: the first final_limit results, each with its score
\* rounded and its source
FormatResults(cfg, res) ==
    [i \in 1..Min2(Len(res), cfg.final_limit) |->
        [id |-> res[i].id, score |-> Round3(res[i].score),
         source |-> res[i].source]]

\* --------------------------------------------------------------- queries
\* longest generated query text, in atoms
MaxLen == 3

\* the vocabularies the generated query texts are written in
YearVocab ==
    { Word(w) : w \in {"late", "to"} }
    \cup { IntLit(2005), IntLit(2000), NNs(80), NNs(10), YYYYs(2000),
           Punct("-") }

RatingVocab ==
    { Word(w) : w \in {"rated", "above", "highly"} }
    \cup { IntLit(7), IntLit(12) }
    \cup { Punct(p) : p \in {"-", "+", ">", "<"} }

GenreVocab ==
    { Word(w) : w \in {"war", "adventure", "romantic", "action",
                       "science", "fiction", "film-noir", "War"} }

MixedVocab ==
    { Word(w) : w \in {"late", "war", "rating", "matrix"} }
    \cup { IntLit(2000), IntLit(7), NNs(80), Punct("+") }

Vocabularies == {YearVocab, RatingVocab, GenreVocab, MixedVocab}

TextsOver(vocab, n) ==
    { s \in [1..n -> vocab \cup { Glued(a) : a \in vocab }] : WellFormed(s) }

\* the test queries of regex_parser.py
TestQueries ==
    { << Word("sci-fi"), Word("movies"), Word("from"), IntLit(1999) >>,
      << Word("romance"), Word("movies"), Word("from"), Word("the"), NNs(90) >>,
      << Word("action"), Word("movies"), Word("from"), Word("early"),
         YYYYs(2000) >>,
      << Word("comedy"), Word("films"), Word("rated"), IntLit(8) >>,
      << Word("drama"), Word("movies"), Word("above"), DecLit(75) >>,
      << Word("horror"), Word("films"), Word("from"), IntLit(1995), Word("to"),
         IntLit(2000), Word("rated"), Word("above"), IntLit(8) >>,
      << Word("adventure"), Word("romance"), Word("movies") >>,
      << Word("war"), Word("movies"), Word("from"), Word("late"), NNs(80),
         Word("with"), Word("rating"), IntLit(7), Glued(Punct("+")) >> }

Texts ==
    UNION { TextsOver(vocab, n) : vocab \in Vocabularies, n \in 0..MaxLen }
    \cup TestQueries

\* the queries the engine is searched with
Queries ==
    { << Word("war"), Word("movies"), Word("from"), Word("late"), NNs(80),
         Word("with"), Word("rating"), IntLit(7), Glued(Punct("+")) >>,
      << Word("sci-fi"), Word("movies"), Word("from"), IntLit(1999) >>,
      << Word("matrix") >> }

\* documents of the corpus, and the most a channel returns
MaxDocs == 2
\* channel scores (thousandths) a collaborator may report
MaxScore == 2

Docs == 1..MaxDocs

\* what a channel can return: distinct documents, best first
ChannelResults ==
    UNION { { r \in [1..n -> [id : Docs, score : 1..MaxScore]] :
                /\ \A i, j \in 1..n : i # j => r[i].id # r[j].id
                /\ \A i \in 1..(n - 1) : r[i].score >= r[i + 1].score }
            : n \in 0..MaxDocs }

\* what fuse can be handed: a mapping of distinct documents to scores, its
\* entries in any insertion order
Mappings ==
    UNION { { r \in [1..n -> [id : Docs, score : 1..MaxScore]] :
                \A i, j \in 1..n : i # j => r[i].id # r[j].id }
            : n \in 0..MaxDocs }

\* load_config's defaults; weights in tenths
Configs ==
    [strategy : {"bm25", "semantic", "fusion"},
     bm25_enable_filters : BOOLEAN,
     bm25_enable_fuzzy : {TRUE},
     semantic_apply_filters : BOOLEAN,
     k : {60}, semantic_weight : {15}, bm25_weight : {10},
     bm25_limit : {20}, faiss_k : {100}, final_limit : {50}]

VARIABLES
    text, parsed,                       \* a direct call of RegexParser.parse
    config, strategy,                   \* SearchEngine: self.config, self.strategy
    pc, query,                          \* search(): position, argument
    cleaned_text, bm25_filters, semantic_filters,
    bm25_results, semantic_results, results, output, error,
    bm25_call, semantic_call,           \* state of each collaborator call
    bm25_calls, semantic_calls, fuse_calls, \* calls the collaborators received
    rrf, lexical, semantic,             \* a direct call of RRFFusion.fuse
    fused, fused_again                  \* what it returned, and returned again

parser_vars == << text, parsed >>
fusion_vars == << rrf, lexical, semantic, fused, fused_again >>
engine_vars == << config, strategy >>
search_vars ==
    << pc, query, cleaned_text, bm25_filters, semantic_filters, bm25_results,
       semantic_results, results, output, error, bm25_call, semantic_call,
       bm25_calls, semantic_calls, fuse_calls >>
vars == << parser_vars, fusion_vars, engine_vars, search_vars >>

\* search() has not been called
SearchIdle ==
    /\ pc = "idle"
    /\ query = << >>
    /\ cleaned_text = << >>
    /\ bm25_filters = None
    /\ semantic_filters = None
    /\ bm25_results = << >>
    /\ semantic_results = << >>
    /\ results = << >>
    /\ output = None
    /\ error = None
    /\ bm25_call = "none"
    /\ semantic_call = "none"
    /\ bm25_calls = << >>
    /\ semantic_calls = << >>
    /\ fuse_calls = << >>

\* fuse() has not been called directly
FusionIdle ==
    /\ rrf = None
    /\ lexical = << >>
    /\ semantic = << >>
    /\ fused = None
    /\ fused_again = None

\* ------------------------------------------------------------- ParseSpec
\* a caller holding a query text calls RegexParser.parse on it
ParseInit ==
    /\ text \in Texts
    /\ parsed = None
    /\ config \in { c \in Configs : c.strategy = "bm25" /\ c.bm25_enable_filters
                                    /\ c.semantic_apply_filters }
    /\ strategy = config.strategy
    /\ SearchIdle
    /\ FusionIdle

Parse ==
    /\ parsed = None
    /\ parsed' = Some(parse(text))
    /\ UNCHANGED << text, fusion_vars, engine_vars, search_vars >>

ParseNext == Parse

ParseSpec == ParseInit /\ [][ParseNext]_vars

\* -------------------------------------------------------------- FuseSpec
\* RRFFusion(k, semantic_weight, bm25_weight) instances; weights in tenths
Fusions ==
    { f \in [k : {1, 60}, semantic_weight : {10, 15, 20},
             bm25_weight : {10, 20}] :
        f.bm25_weight = 10 \/ f.semantic_weight = 10 }

\* a caller holding two channel results calls fuse on them, twice
FuseInit ==
    /\ rrf \in { Some(f) : f \in Fusions }
    /\ lexical \in ChannelResults
    /\ semantic \in ChannelResults
    /\ fused = None
    /\ fused_again = None
    /\ text = << >>
    /\ parsed = None
    /\ config \in { c \in Configs : c.strategy = "fusion" /\ c.bm25_enable_filters
                                    /\ c.semantic_apply_filters }
    /\ strategy = config.strategy
    /\ SearchIdle

Fuse ==
    /\ fused = None
    /\ \E out \in fuse(rrf[1], lexical, semantic) : fused' = Some(out)
    /\ UNCHANGED << parser_vars, rrf, lexical, semantic, fused_again,
                    engine_vars, search_vars >>

FuseAgain ==
    /\ fused # None /\ fused_again = None
    /\ \E out \in fuse(rrf[1], lexical, semantic) : fused_again' = Some(out)
    /\ UNCHANGED << parser_vars, rrf, lexical, semantic, fused, engine_vars,
                    search_vars >>

FuseNext == Fuse \/ FuseAgain

FuseSpec == FuseInit /\ [][FuseNext]_vars

\* fuse called on mappings built in any order
FuseAnyInit ==
    /\ rrf \in { Some(f) : f \in Fusions }
    /\ lexical \in Mappings
    /\ semantic \in Mappings
    /\ fused = None
    /\ fused_again = None
    /\ text = << >>
    /\ parsed = None
    /\ config \in { c \in Configs : c.strategy = "fusion" /\ c.bm25_enable_filters
                                    /\ c.semantic_apply_filters }
    /\ strategy = config.strategy
    /\ SearchIdle

FuseAnySpec == FuseAnyInit /\ [][FuseNext]_vars

\* ------------------------------------------------------------------ Spec
\* SearchEngine(config) has been constructed and its indices loaded
\* the strategies load_config accepts
valid_strategies == {"bm25", "semantic", "fusion"}

\* load_config: a strategy outside valid_strategies raises ValueError
load_config(strat) ==
    IF strat \in valid_strategies THEN "config" ELSE "ValueError"

\* a strategy load_config does not accept, given to SearchEngine directly
UnknownStrategies == {"hybrid"}

\* the configurations an engine can be constructed with: __init__ checks
\* nothing
EngineConfigs ==
    Configs \cup { [c EXCEPT !.strategy = u] : c \in Configs,
                                                u \in UnknownStrategies }

_needs_bm25(strat) == strat \in {"bm25", "fusion"}

\* (the semantic side set up for the semantic strategy alone)
_needs_semantic_Alone(strat) == strat = "semantic"

_needs_semantic(strat) == strat \in {"semantic", "fusion"}

_needs_fusion(strat) == strat = "fusion"

\* __init__: the components that are not None once the engine is built
Components(strat) ==
    (IF _needs_semantic(strat)
     THEN {"embedder", "semantic_parser", "semantic_indexer"} ELSE {})
    \cup (IF _needs_bm25(strat) THEN {"bm25_parser", "bm25_indexer"} ELSE {})
    \cup (IF _needs_fusion(strat) THEN {"fusion"} ELSE {})

\* load_indices: the components whose load() it calls
LoadIndicesUses(strat) ==
    (IF strat \in {"semantic", "fusion"} THEN {"semantic_indexer"} ELSE {})
    \cup (IF strat \in {"bm25", "fusion"} THEN {"bm25_indexer"} ELSE {})

\* the components the step of search() at p calls a method of;
\* _format_results asks an indexer for a document only if it is not None
Uses(p, strat) ==
    CASE p = "parse_bm25" -> {"bm25_parser"}
      [] p = "parse_semantic" -> {"semantic_parser"}
      [] p \in {"call_bm25", "wait_bm25"} -> {"bm25_indexer"}
      [] p \in {"call_semantic", "wait_semantic"} ->
           {"semantic_indexer", "embedder"}
      [] p = "build" -> IF strat = "fusion" THEN {"fusion"} ELSE {}
      [] p = "format" ->
           {"bm25_indexer", "semantic_indexer"} \cap Components(strat)
      [] OTHER -> {}

Init ==
    /\ config \in EngineConfigs
    /\ strategy = config.strategy
    /\ text = << >>
    /\ parsed = None
    /\ SearchIdle
    /\ FusionIdle

\* the exception search() lets through: search wraps no call in a handler,
\* so the caller gets the exception as raised, with no stage or channel
\* attached
Raised_Wrapped(type) ==
    [type |-> type, stage |-> Some("channel"),
     channel |-> IF type = "TypeError" THEN Some("bm25") ELSE None]

Raised(type) == [type |-> type, stage |-> None, channel |-> None]

\* search(query) is called (again): its locals start afresh; a strategy
\* that is none of the three raises ValueError, line 378
StartSearch ==
    /\ pc \in {"idle", "done", "raised"}
    /\ \E q \in Queries : query' = q
    /\ pc' = IF strategy \in {"bm25", "fusion"} THEN "parse_bm25"
             ELSE IF strategy = "semantic" THEN "parse_semantic"
             ELSE "raised"
    /\ cleaned_text' = << >>
    /\ bm25_filters' = None
    /\ semantic_filters' = None
    /\ bm25_results' = << >>
    /\ semantic_results' = << >>
    /\ results' = << >>
    /\ output' = None
    /\ error' = IF strategy \in {"bm25", "semantic", "fusion"} THEN None
                ELSE Some(Raised("ValueError"))
    /\ bm25_call' = "none"
    /\ semantic_call' = "none"
    /\ bm25_calls' = << >>
    /\ semantic_calls' = << >>
    /\ fuse_calls' = << >>
    /\ UNCHANGED << parser_vars, fusion_vars, engine_vars >>

\* _parse_query_for_bm25(query), lines 281 and 333
ParseQueryForBm25 ==
    /\ pc = "parse_bm25"
    /\ cleaned_text' = parse(query).search_term
    /\ bm25_filters' = Some(parse(query).filters)
    /\ pc' = IF strategy = "fusion" THEN "parse_semantic" ELSE "call_bm25"
    /\ UNCHANGED << parser_vars, fusion_vars, engine_vars, query, semantic_filters,
                    bm25_results, semantic_results, results, output, error,
                    bm25_call, semantic_call, bm25_calls, semantic_calls,
                    fuse_calls >>

\* the collaborator search() calls once the filters are extracted: in
\* fusion mode the lexical one comes first, line 350, and the semantic one
\* follows its return, line 354
AfterExtractFilters_SemanticFirst(strat) == "call_semantic"

AfterExtractFilters(strat) ==
    IF strat = "fusion" THEN "call_bm25" ELSE "call_semantic"

\* _extract_filters_for_semantic(query), lines 307 and 336
ExtractFiltersForSemantic ==
    /\ pc = "parse_semantic"
    /\ semantic_filters' = Some(parse(query).filters)
    /\ pc' = AfterExtractFilters(strategy)
    /\ UNCHANGED << parser_vars, fusion_vars, engine_vars, query, cleaned_text,
                    bm25_filters, bm25_results, semantic_results, results,
                    output, error, bm25_call, semantic_call, bm25_calls,
                    semantic_calls, fuse_calls >>

\* _search_bm25(cleaned_text, bm25_filters): the call of
\* self.bm25_indexer.search, which raises TypeError unless it binds
SearchBm25 ==
    /\ pc = "call_bm25"
    /\ IF Bm25CallBinds
       THEN /\ bm25_call' = "in_flight"
            /\ bm25_calls' = Append(bm25_calls,
                                    [query_text |-> cleaned_text,
                                     filters |-> bm25_filters,
                                     limit |-> config.bm25_limit,
                                     enable_fuzzy |-> config.bm25_enable_fuzzy])
            /\ pc' = "wait_bm25"
            /\ UNCHANGED error
       ELSE /\ bm25_call' = "raised"
            /\ error' = Some(Raised("TypeError"))
            /\ pc' = "raised"
            /\ UNCHANGED bm25_calls
    /\ UNCHANGED << parser_vars, fusion_vars, engine_vars, query, cleaned_text,
                    bm25_filters, semantic_filters, bm25_results,
                    semantic_results, results, output, semantic_call,
                    semantic_calls, fuse_calls >>

\* what _search_semantic(full_query_text, filters) passes to
\* self.semantic_indexer.search: the text it was given, and the filters
\* only if semantic.apply_filters is set
SemanticCallArgs_Stripped(cfg, full_query_text, filters) ==
    [query_text |-> parse(full_query_text).search_term,
     filters |-> IF cfg.semantic_apply_filters THEN filters ELSE None,
     k |-> cfg.faiss_k]

SemanticCallArgs(cfg, full_query_text, filters) ==
    [query_text |-> full_query_text,
     filters |-> IF cfg.semantic_apply_filters THEN filters ELSE None,
     k |-> cfg.faiss_k]

\* _search_semantic(original_query, semantic_filters): the call of
\* self.semantic_indexer.search
SearchSemantic ==
    /\ pc = "call_semantic"
    /\ semantic_call' = "in_flight"
    /\ semantic_calls' =
         Append(semantic_calls, SemanticCallArgs(config, query, semantic_filters))
    /\ pc' = "wait_semantic"
    /\ UNCHANGED << parser_vars, fusion_vars, engine_vars, query, cleaned_text,
                    bm25_filters, semantic_filters, bm25_results,
                    semantic_results, results, output, error, bm25_call,
                    bm25_calls, fuse_calls >>

\* the collaborator call in flight returns its channel result
CollaboratorReturns ==
    \E r \in ChannelResults :
        /\ \/ /\ pc = "wait_bm25"
              /\ bm25_results' = r
              /\ bm25_call' = "returned"
              /\ pc' = IF strategy = "fusion" THEN "call_semantic" ELSE "build"
              /\ UNCHANGED << semantic_results, semantic_call >>
           \/ /\ pc = "wait_semantic"
              /\ semantic_results' = r
              /\ semantic_call' = "returned"
              /\ pc' = "build"
              /\ UNCHANGED << bm25_results, bm25_call >>
        /\ UNCHANGED << parser_vars, fusion_vars, engine_vars, query, cleaned_text,
                        bm25_filters, semantic_filters, results, output, error,
                        bm25_calls, semantic_calls, fuse_calls >>

\* (a search() that caught the exception and went on with an empty result)
CollaboratorRaises_Degraded ==
    /\ \/ /\ pc = "wait_bm25"
          /\ bm25_call' = "raised"
          /\ pc' = IF strategy = "fusion" THEN "call_semantic" ELSE "build"
          /\ UNCHANGED semantic_call
       \/ /\ pc = "wait_semantic"
          /\ semantic_call' = "raised"
          /\ pc' = "build"
          /\ UNCHANGED bm25_call
    /\ UNCHANGED << parser_vars, fusion_vars, engine_vars, query, cleaned_text,
                    bm25_filters, semantic_filters, bm25_results,
                    semantic_results, results, output, error, bm25_calls,
                    semantic_calls, fuse_calls >>

\* the collaborator call in flight raises: the exception leaves search()
CollaboratorRaises ==
    /\ \/ /\ pc = "wait_bm25"
          /\ bm25_call' = "raised"
          /\ UNCHANGED semantic_call
       \/ /\ pc = "wait_semantic"
          /\ semantic_call' = "raised"
          /\ UNCHANGED bm25_call
    /\ error' = Some(Raised("CollaboratorError"))
    /\ pc' = "raised"
    /\ UNCHANGED << parser_vars, fusion_vars, engine_vars, query, cleaned_text,
                    bm25_filters, semantic_filters, bm25_results,
                    semantic_results, results, output, bm25_calls,
                    semantic_calls, fuse_calls >>

\* results = ..., lines 302, 328 and 373-375
BuildResults ==
    /\ pc = "build"
    /\ IF strategy = "bm25"
       THEN results' = Tagged(bm25_results, "bm25") /\ UNCHANGED fuse_calls
       ELSE IF strategy = "semantic"
       THEN results' = Tagged(semantic_results, "semantic")
            /\ UNCHANGED fuse_calls
       ELSE /\ results' \in fuse(config, bm25_results, semantic_results)
            /\ fuse_calls' = Append(fuse_calls,
                                    [bm25_results |-> bm25_results,
                                     semantic_results |-> semantic_results])
    /\ pc' = "format"
    /\ UNCHANGED << parser_vars, fusion_vars, engine_vars, query, cleaned_text,
                    bm25_filters, semantic_filters, bm25_results,
                    semantic_results, output, error, bm25_call, semantic_call,
                    bm25_calls, semantic_calls >>

\* (a search() that resets the engine's strategy on its way out)
ReturnOutput_Reconfigured ==
    /\ pc = "format"
    /\ output' = Some(FormatResults(config, results))
    /\ pc' = "done"
    /\ strategy' = "fusion"
    /\ config' = [config EXCEPT !.strategy = "fusion"]
    /\ UNCHANGED << parser_vars, fusion_vars, query, cleaned_text,
                    bm25_filters, semantic_filters, bm25_results,
                    semantic_results, results, error, bm25_call,
                    semantic_call, bm25_calls, semantic_calls, fuse_calls >>

\* output = self._format_results(results, source=self.strategy); return
ReturnOutput ==
    /\ pc = "format"
    /\ output' = Some(FormatResults(config, results))
    /\ pc' = "done"
    /\ UNCHANGED << parser_vars, fusion_vars, engine_vars, query, cleaned_text,
                    bm25_filters, semantic_filters, bm25_results,
                    semantic_results, results, error, bm25_call,
                    semantic_call, bm25_calls, semantic_calls, fuse_calls >>

Next ==
    \/ StartSearch
    \/ ParseQueryForBm25
    \/ ExtractFiltersForSemantic
    \/ SearchBm25
    \/ SearchSemantic
    \/ CollaboratorReturns
    \/ CollaboratorRaises
    \/ BuildResults
    \/ ReturnOutput

Spec == Init /\ [][Next]_vars

\* ================================================================ claims
\* --------------------------------------------- RegexParser (ParseSpec)
Present(f) == f # None

YearsOrdered(f) ==
    Present(f.year_min) /\ Present(f.year_max) => f.year_min[1] <= f.year_max[1]

RatingsOrdered(f) ==
    Present(f.rating_min) /\ Present(f.rating_max)
        => f.rating_min[1] <= f.rating_max[1]

\* C1: for every input text, the filters parse returns have
\* year_min <= year_max whenever both are present and
\* rating_min <= rating_max whenever both are present.
C1_BoundsOrdered ==
    Present(parsed) =>
        YearsOrdered(parsed[1].filters) /\ RatingsOrdered(parsed[1].filters)

\* the text holds a qualified decade ('early', 'late' or 'mid' before
\* 'NNs') and no four-digit year, which the earlier passes would take
HasQualifiedDecade(s) ==
    /\ Search("temporal", s) > 0
    /\ \A i \in 1..Len(s) : ~IsY4(s[i]) /\ ~IsY4s(s[i])

QualifiedDecadeYears(s, i) ==
    PeriodRange(Period(s[i]), DecadeBase(s[i + 1].n))

YearsAre(f, yrs) == f.year_min = Some(yrs[1]) /\ f.year_max = Some(yrs[2])

\* C8: a text with a qualified decade 'early|late|mid NNs' parses to the
\* sub-range of that decade: early = first five years, late = last five,
\* mid = the middle years ('late 80s' gives 1985..1989).
C8_QualifiedDecade ==
    Present(parsed) /\ HasQualifiedDecade(text) =>
        YearsAre(parsed[1].filters,
                 QualifiedDecadeYears(text, Search("temporal", text)))

\* the position of 'rating N+' in the text (0: none): the keyword, a
\* number that is not a year, and a plus sign
IsRatingPlus(a, b, c) ==
    IsWord(a, {"rating"}) /\ IsNumber(b) /\ ~IsY4(b) /\ IsPunct(c, {"+"})

RatingPlusAt(s) ==
    Least({ i \in 1..Len(s) : IsRatingPlus(At(s, i), At(s, i + 1), At(s, i + 2)) })

\* the text's only rating expression is a 'rating N+'
HasRatingPlus(s) ==
    /\ RatingPlusAt(s) > 0
    /\ \A i \in 1..Len(s) :
          (i < RatingPlusAt(s) \/ i > RatingPlusAt(s) + 2)
              => s[i].k = "word" /\ s[i].w \notin
                    (RatedWords \cup AboveWords \cup BelowWords \cup HighWords)

RatingsAre(f, lo, hi) == f.rating_min = Some(lo) /\ f.rating_max = Some(hi)

\* C9: a text whose rating is written 'rating N+' parses to
\* rating_min = N and rating_max = 10.0.
C9_RatingPlus ==
    Present(parsed) /\ HasRatingPlus(text) =>
        RatingsAre(parsed[1].filters,
                   Float(text[RatingPlusAt(text) + 1]), 100)

\* the tokens of the n atoms of s that start at atom i
TokensAt(s, i, n) ==
    { tok \in UNION { { AtomTokens(s[j])[x] : x \in 1..Len(AtomTokens(s[j])) }
                      : j \in (1..Len(s)) \cap (i..(i + n - 1)) } : TRUE }

TokensOf(s) == TokensAt(s, 1, Len(s))

\* the tokens of what re.search(pattern) matches in s
MatchedAt(pat, s, i) == IF i > 0 THEN TokensAt(s, i, MatchLen(pat, s, i)) ELSE {}

Matched(pat, s) == IF pat = "none" THEN {} ELSE MatchedAt(pat, s, Search(pat, s))

\* the qualifier in front of the year expression the year pass matched
QualifierAt(s, i) ==
    IF i > 1 /\ IsWord(At(s, i - 1), Periods) THEN TokensAt(s, i - 1, 1) ELSE {}

QualifierOf(pass, s) ==
    IF pass = "none" THEN {} ELSE QualifierAt(s, Search(pass, s))

\* the tokens of the genre expression matched in s
GenreWordsAt(ws, s) ==
    TokensAt(s, Least({ i \in 1..Len(s) : MatchWords(ws, s, i) > 0 }), Len(ws))

GenreMatched(e, y, s) ==
    IF e > 0 THEN GenreWordsAt(genre_tokens[e].words, s)
    ELSE IF y > 0 THEN GenreWordsAt(genre_synonyms[y].words, s)
    ELSE {}

\* everything the claim wants gone from the search term: what the year
\* pass matched in the text and its qualifier, what the genre pass matched
\* in what the year pass left, what the rating pass matched in what the
\* genre pass left, and the stop words
Filtered(s, y, ge) ==
    Matched(YearPass(s), s) \cup QualifierOf(YearPass(s), s)
    \cup GenreMatched(FirstEntry(genre_tokens, y), FirstEntry(genre_synonyms, y), y)
    \cup Matched(RatingPass(ge), ge)
    \cup { Word(w) : w \in additional_tokens \cup STOP_WORDS }

FilteredOfGenre(s, y) == Filtered(s, y, extract_genre(y).cleaned)

FilteredOf(s) == FilteredOfGenre(s, extract_year_range(s).cleaned)

\* no token occurs twice in the text, so that a token of the search term
\* is the very occurrence that was matched
NoRepeats(toks) == \A i, j \in 1..Len(toks) : toks[i] = toks[j] => i = j

\* C10: the search_term parse returns holds none of: the text the year
\* pass matched (with its early/late/mid qualifier), the genre token
\* matched, the rating text matched, the stop words.
C10_SearchTermClean ==
    Present(parsed) /\ NoRepeats(Tokenize(text)) =>
        TokensOf(parsed[1].search_term) \cap FilteredOf(text) = {}

\* the text holds a decade shorthand 'NNs' and no four-digit year
HasDecade(s) ==
    /\ Search("decade", s) > 0
    /\ \A i \in 1..Len(s) : ~IsY4(s[i])

\* the decade the shorthand names
DecadeOf(nn) == IF nn >= 20 THEN 1900 + nn ELSE 2000 + nn

DecadeYears(base) == << base, base + 9 >>

CanonicalGenres ==
    {"action", "adventure", "animation", "children", "comedy", "crime",
     "documentary", "drama", "family", "fantasy", "film-noir", "history",
     "horror", "imax", "music", "musical", "mystery", "romance", "sci-fi",
     "science fiction", "thriller", "tv movie", "war", "western"}

\* the synonyms that stand for a canonical genre
RawSynonyms == {"romantic", "rom-com", "romcom", "scifi"}

\* C12: the genre parse returns is absent or one token of the canonical
\* vocabulary, never a raw synonym.
C12_GenreCanonical ==
    Present(parsed) /\ Present(parsed[1].filters.genre) =>
        /\ parsed[1].filters.genre[1] \in CanonicalGenres
        /\ parsed[1].filters.genre[1] \notin RawSynonyms

\* a text whose genre is written as a synonym got the canonical genre
C12_Witness ==
    /\ Present(parsed)
    /\ \E i \in 1..Len(text) : IsWord(text[i], {"romantic"})
    /\ parsed[1].filters.genre = Some("romance")

\* the text matches no year, genre or rating pattern
NoPattern(s) ==
    /\ YearPass(s) = "none"
    /\ FirstEntry(genre_tokens, s) = 0 /\ FirstEntry(genre_synonyms, s) = 0
    /\ RatingPass(s) = "none"

AllAbsent(f) ==
    /\ f.year_min = None /\ f.year_max = None
    /\ f.genre = None
    /\ f.rating_min = None /\ f.rating_max = None

InLexical(id) == \E i \in 1..Len(lexical) : lexical[i].id = id

InSemantic(id) == \E i \in 1..Len(semantic) : semantic[i].id = id

ProvenanceRight(e) ==
    /\ e.source = "both" <=> InLexical(e.id) /\ InSemantic(e.id)
    /\ e.source = "bm25" <=> InLexical(e.id) /\ ~InSemantic(e.id)
    /\ e.source = "semantic" <=> ~InLexical(e.id) /\ InSemantic(e.id)

\* C14: every entry of fuse's output has provenance 'both' iff its id is in
\* both results, 'bm25' iff only in the lexical one, 'semantic' iff only in
\* the semantic one.
C14_Provenance ==
    Present(fused) => \A i \in 1..Len(fused[1]) : ProvenanceRight(fused[1][i])

\* an output with a document of both channels and one of a single channel
C14_Witness ==
    /\ Present(fused)
    /\ \E i \in 1..Len(fused[1]) : fused[1][i].source = "both"
    /\ \E i \in 1..Len(fused[1]) : fused[1][i].source # "both"

\* the raw scores of the call
Raw(id) == RawScore(rrf[1], lexical, semantic, id)

UnionIds ==
    { lexical[i].id : i \in 1..Len(lexical) }
    \cup { semantic[i].id : i \in 1..Len(semantic) }

RawMax == SetMax({ Raw(id) : id \in UnionIds })

RawMin == SetMin({ Raw(id) : id \in UnionIds })

\* (score - min) / (max - min), and 1.0 when max = min
MinMax(raw, lo, hi) ==
    IF hi = lo THEN [num |-> 1, den |-> 1]
    ELSE [num |-> raw - lo, den |-> hi - lo]

ScoreRight(e, lo, hi) ==
    /\ e.score = MinMax(Raw(e.id), lo, hi)
    /\ e.score.den > 0 /\ 0 <= e.score.num /\ e.score.num <= e.score.den
    /\ (Raw(e.id) = hi => e.score.num = e.score.den)
    /\ (hi # lo /\ Raw(e.id) = lo => e.score.num = 0)

\* C15: every normalized score is (score - min) / (max - min) over the raw
\* scores of the call and lies in [0, 1]; if all raw scores are equal every
\* entry gets 1.0, otherwise the highest gets 1.0 and the lowest 0.0.
C15_Normalized ==
    Present(fused) =>
        \A i \in 1..Len(fused[1]) : ScoreRight(fused[1][i], RawMin, RawMax)

\* an output that spans the whole range, from 1.0 down to 0.0
C15_Witness ==
    /\ Present(fused) /\ Len(fused[1]) >= 2
    /\ fused[1][1].score.num = fused[1][1].score.den
    /\ fused[1][Len(fused[1])].score.num = 0

\* x <= y for two scores of one call (they share the denominator)
NotAbove(x, y) == x.den = y.den /\ x.num <= y.num

\* C16: fuse's output is ordered by normalized score, non-increasing.
C16_Ordered ==
    Present(fused) =>
        \A i \in 1..(Len(fused[1]) - 1) :
            NotAbove(fused[1][i + 1].score, fused[1][i].score)

\* an output of as many documents as there are, not all of one score
C16_Witness ==
    /\ Present(fused) /\ Len(fused[1]) = MaxDocs
    /\ fused[1][1].score # fused[1][MaxDocs].score
    /\ fused[1][1].source = "semantic"

\* C17: two calls of fuse with the same lexical result, semantic result, k
\* and weights return the same sequence: same ids, scores and provenance,
\* in the same order.
C17_Deterministic ==
    Present(fused) /\ Present(fused_again) => fused_again = fused

\* the entry of document id in the output
EntryOf(out, id) == out[CHOOSE i \in 1..Len(out) : out[i].id = id]

\* document id leads both channel results
TopOfBoth(id) ==
    /\ lexical # << >> /\ lexical[1].id = id
    /\ semantic # << >> /\ semantic[1].id = id

InOneChannel(id) == InLexical(id) # InSemantic(id)

EqualWeights(f) ==
    f.semantic_weight = f.bm25_weight /\ f.bm25_weight > 0 /\ f.k > 0

Outscores(out, d, e) ==
    /\ Raw(d) > Raw(e)
    /\ EntryOf(out, d).score.num > EntryOf(out, e).score.num

\* C18: with equal positive weights and k > 0, a document at rank 0 in
\* both channels has provenance 'both' and a raw fused score strictly
\* greater than that of every document found in one channel only.
C18_TopOfBothWins ==
    Present(fused) /\ EqualWeights(rrf[1]) =>
        \A d \in UnionIds :
            TopOfBoth(d) =>
                /\ EntryOf(fused[1], d).source = "both"
                /\ \A e \in UnionIds :
                      InOneChannel(e) => Outscores(fused[1], d, e)

\* equal weights, one document leading both channels, another in one only
C18_Witness ==
    /\ Present(fused) /\ EqualWeights(rrf[1])
    /\ \E d \in UnionIds : TopOfBoth(d)
    /\ \E e \in UnionIds : InOneChannel(e)

\* the output lists the documents of result r in r's order, all with the
\* given provenance, the first with score 1.0
Follows(out, r, source) ==
    /\ Len(out) = Len(r)
    /\ \A i \in 1..Len(out) : out[i].id = r[i].id /\ out[i].source = source
    /\ out[1].score.num = out[1].score.den

\* C19: when exactly one channel result is empty, fuse returns the other
\* channel's documents in that channel's order, each with that channel's
\* provenance, the top entry with normalized score 1.0.
C19_OneChannelEmpty ==
    Present(fused) =>
        /\ (lexical = << >> /\ semantic # << >>
               => Follows(fused[1], semantic, "semantic"))
        /\ (semantic = << >> /\ lexical # << >>
               => Follows(fused[1], lexical, "bm25"))

\* the lexical result was empty and the semantic one as long as can be
C19_Witness ==
    /\ Present(fused)
    /\ lexical = << >> /\ Len(semantic) = MaxDocs
    /\ fused[1][MaxDocs].score.num = 0

\* C20: fuse returns one entry for each id of the union of the two results
\* and none for any other id; two empty results give the empty sequence.
C20_OneEntryPerId ==
    Present(fused) =>
        /\ { fused[1][i].id : i \in 1..Len(fused[1]) } = UnionIds
        /\ Len(fused[1]) = Cardinality(UnionIds)
        /\ (lexical = << >> /\ semantic = << >> => fused[1] = << >>)

\* a document of both results appears once among the others
C20_Witness ==
    /\ Present(fused)
    /\ Len(fused[1]) = MaxDocs
    /\ Len(fused[1]) < Len(lexical) + Len(semantic)
    /\ Len(lexical) # Len(semantic)

\* the rank fuse gives document id in channel result r
RankIn(r, id) == Index(r, id)

\* the ranks of r follow its scores: a higher score, a lower rank
RankedByScore(r) ==
    \A i, j \in 1..Len(r) :
        r[i].score > r[j].score => RankIn(r, r[i].id) < RankIn(r, r[j].id)

\* C22: in fuse, a document's rank in a channel is its 0-based position
\* among the channel's documents in descending score order, whatever the
\* order in which the mapping's entries were inserted.
C22_RankByScore ==
    Present(fused) => RankedByScore(lexical) /\ RankedByScore(semantic)

\* 0-based position of document id in result r
PosIn(r, id) == (CHOOSE i \in 1..Len(r) : r[i].id = id) - 1

\* the unit the scores are counted in: one over the product of every
\* k + rank that occurs
Units(f) == Scale(f.k, lexical, semantic)

\* weight * 1 / (k + rank) for a channel holding the document, else 0
Share(f, u, weight, r, id) ==
    IF \E i \in 1..Len(r) : r[i].id = id
    THEN weight * (u \div (f.k + PosIn(r, id)))
    ELSE 0

\* lexical_weight / (k + rankL) + semantic_weight / (k + rankS)
Weighted(f, u, id) ==
    Share(f, u, f.bm25_weight, lexical, id)
    + Share(f, u, f.semantic_weight, semantic, id)

WeightedSums(f, u) == { Weighted(f, u, id) : id \in UnionIds }

\* every entry's score is the weighted sum of its document, scaled between
\* the least, lo, and the greatest, hi, of the weighted sums
ScaledBetween(f, u, lo, hi) ==
    \A i \in 1..Len(fused[1]) :
        fused[1][i].score = MinMax(Weighted(f, u, fused[1][i].id), lo, hi)

ScaledSums(f, u, sums) == ScaledBetween(f, u, SetMin(sums), SetMax(sums))

WeightedSum(f, u) ==
    /\ \A id \in UnionIds : Raw(id) = Weighted(f, u, id)
    /\ ScaledSums(f, u, WeightedSums(f, u))

\* C23: the raw fused score of every id of the union is
\* lexical_weight / (k + rankL) if the lexical result holds it, else 0,
\* plus semantic_weight / (k + rankS) if the semantic result holds it,
\* else 0; the absent-rank penalty (100) changes no score.
C23_WeightedSum == Present(fused) => WeightedSum(rrf[1], Units(rrf[1]))

\* an output with a document of one channel only between two others
C23_Witness ==
    /\ Present(fused) /\ Len(fused[1]) = MaxDocs
    /\ \E i \in 1..Len(fused[1]) : fused[1][i].source = "bm25"
    /\ \E i \in 1..Len(fused[1]) : fused[1][i].source = "both"
    /\ rrf[1].k = 60

\* C24: entries of fuse's output with equal normalized score are in
\* ascending order of document id.
C24_TiesByAscendingId ==
    Present(fused) =>
        \A i, j \in 1..Len(fused[1]) :
            i < j /\ fused[1][i].score = fused[1][j].score
                => fused[1][i].id < fused[1][j].id

\* ------------------------------------------------- SearchEngine (Spec)
\* search() is past the point where it calls the collaborators
PastCalls == pc \in {"build", "format", "done", "raised"}

\* the call is the one the strategy prescribes for query q
IsCallWith(call, term, filters) ==
    call.query_text = term /\ call.filters = filters

\* the output lists the channel result r in order, every entry tagged
TaggedAs(out, r, source) ==
    /\ Len(out) = Len(r)
    /\ \A i \in 1..Len(out) : out[i].id = r[i].id /\ out[i].source = source

\* a collaborator's search() ran and raised
CollaboratorFailed == Present(error) /\ error[1].type = "CollaboratorError"

\* C2: with strategy 'bm25', search parses the query, calls the lexical
\* collaborator's search exactly once with the parsed search_term and
\* filters, never calls the semantic collaborator, and returns the lexical
\* results, each tagged 'bm25'.
C2_LexicalSearch ==
    strategy = "bm25" /\ PastCalls =>
        /\ Len(bm25_calls) = 1
        /\ \A i \in 1..Len(bm25_calls) :
              IsCallWith(bm25_calls[i], parse(query).search_term,
                         Some(parse(query).filters))
        /\ semantic_calls = << >>
        /\ (pc = "done" => Present(output)
                           /\ TaggedAs(output[1], bm25_results, "bm25"))

\* C3: with strategy 'semantic', search calls the semantic collaborator's
\* search with the original query text, with the parsed filters if and
\* only if semantic.apply_filters is set, never calls the lexical
\* collaborator, and returns the semantic results, each tagged 'semantic'.
C3_SemanticSearch ==
    strategy = "semantic" =>
        /\ bm25_calls = << >> /\ bm25_call = "none"
        /\ Len(semantic_calls) = (IF semantic_call = "none" THEN 0 ELSE 1)
        /\ \A i \in 1..Len(semantic_calls) :
              IsCallWith(semantic_calls[i], query,
                         IF config.semantic_apply_filters
                         THEN Some(parse(query).filters) ELSE None)
        /\ (PastCalls => semantic_call # "none")
        /\ (pc = "done" => Present(output)
                           /\ TaggedAs(output[1], semantic_results, "semantic"))

\* a semantic search returned results for a query whose cleaned text
\* differs from it, and the filters went along
C3_Witness ==
    /\ strategy = "semantic" /\ pc = "done" /\ Present(output)
    /\ Len(output[1]) = MaxDocs
    /\ query # parse(query).search_term
    /\ config.semantic_apply_filters
    /\ Present(semantic_calls[1].filters)
    /\ Present(semantic_calls[1].filters[1].year_min)

Ended(call) == call \in {"returned", "raised"}

C6_FailureDelivered ==
    bm25_call = "raised" \/ semantic_call = "raised" =>
        /\ pc = "raised" /\ Present(error)
        /\ output = None
        /\ results = << >>
        /\ fuse_calls = << >>

\* the lexical call of a hybrid search failed
C6_Witness ==
    strategy = "fusion" /\ pc = "raised" /\ bm25_call = "raised"

CanonicalTable ==
    << [name |-> "action", words |-> << "action" >>] >> \o genre_tokens

\* the genre of residual s when canonical entry e, else synonym entry y,
\* is the first to match
GenreByOrder(e, y) ==
    IF e > 0 THEN Some(CanonicalTable[e].name)
    ELSE IF y > 0 THEN Some(genre_synonyms[y].name)
    ELSE None

FirstInVocabulary(s) ==
    GenreByOrder(FirstEntry(CanonicalTable, s), FirstEntry(genre_synonyms, s))

\* C25: parse returns at most one genre: the first token of the canonical
\* vocabulary (action, adventure, animation, ..., western) with a whole-word
\* match in the text, wherever it stands in the text; a synonym only when
\* no canonical token matches.
C25_FirstInVocabulary ==
    Present(parsed) =>
        parsed[1].filters.genre
            = FirstInVocabulary(extract_year_range(text).cleaned)

\* what the rating pass is given: the residual of the year and genre passes
RatingResidual(s) == extract_genre(extract_year_range(s).cleaned).cleaned

\* pattern (c) as stated: a number and a plus sign, or an operator
\* followed by a number
StatedOperatorAt(s, i) ==
    \/ IsPunct(At(s, i), Operators) /\ IsNumber(At(s, i + 1))
    \/ IsNumber(At(s, i)) /\ IsPunct(At(s, i + 1), {"+"})

StatedOperator(s) == Least({ i \in 1..Len(s) : StatedOperatorAt(s, i) })

\* the first of the five patterns, in the stated order, that the text holds
StatedRatingPass(s) ==
    IF Search("rated", s) > 0 THEN "rated"
    ELSE IF Search("comparison", s) > 0 THEN "comparison"
    ELSE IF StatedOperator(s) > 0 THEN "operator"
    ELSE IF Search("high_rated", s) > 0 THEN "high_rated"
    ELSE IF Search("rating_range", s) > 0 THEN "rating_range"
    ELSE "none"

StatedRatingAt(pass, s, i) ==
    IF pass = "operator" THEN RatingFields(pass, s, i, 2)
    ELSE RatingFields(pass, s, i, MatchLen(pass, s, i))

StatedRating(pass, s) ==
    StatedRatingAt(pass, s,
                   IF pass = "operator" THEN StatedOperator(s)
                   ELSE Search(pass, s))

RatingsByPass(f, pass, s) ==
    IF pass = "none"
    THEN f.rating_min = None /\ f.rating_max = None
    ELSE RatingsAre(f, StatedRating(pass, s)[1], StatedRating(pass, s)[2])

\* C26: the rating fields are set by the first of the patterns
\* (a) rated|rating|score N, (b) above|over|more than N / below|under|less
\* than N, (c) N+ or an operator >, >=, <, <= followed by N, (d)
\* highly|well|top|best rated, (e) N - M that the text holds, and by no
\* other: (a) min = max = N, above-type [N, 10.0], below-type [0.0, N],
\* (d) [7.0, 10.0], (e) [N, M].
C26_FirstRatingPattern ==
    Present(parsed) =>
        RatingsByPass(parsed[1].filters,
                      StatedRatingPass(RatingResidual(text)),
                      RatingResidual(text))

\* the five year passes in their order
YearPasses ==
    << "year_range", "single_year", "decade", "temporal", "temporal_full" >>

PassAt(m) == IF m = 0 THEN "none" ELSE YearPasses[m]

\* the first year pass, in that order, whose pattern the text holds
FirstYearPass(s) ==
    PassAt(Least({ m \in 1..Len(YearPasses) : Search(YearPasses[m], s) > 0 }))

\* the years of that pass alone, and the text less that pass's matches alone
YearsOfFirst(yrs, cleaned) ==
    [year_min |-> Some(yrs[1]), year_max |-> Some(yrs[2]), cleaned |-> cleaned]

OnlyPass(pass, s) ==
    IF pass = "none"
    THEN [year_min |-> None, year_max |-> None, cleaned |-> Sub("none", s)]
    ELSE YearsOfFirst(YearFields(pass, s, Search(pass, s)), Sub(pass, s))

\* C27: at most one of the five year passes sets the year fields, the first
\* that matches in the order explicit range, single year, decade shorthand,
\* qualified decade, qualified full year; no later year pass changes the
\* fields or removes further text, so the later passes of parse run on the
\* text less that one pass's matches.
C27_FirstYearPass ==
    Present(parsed) =>
        /\ parsed[1].filters.year_min = OnlyPass(FirstYearPass(text), text).year_min
        /\ parsed[1].filters.year_max = OnlyPass(FirstYearPass(text), text).year_max
        /\ extract_year_range(text).cleaned = Sub(FirstYearPass(text), text)

\* a text parsed that holds both a single year and a decade shorthand,
\* the decade standing first: the year fields are those of the single year
C27_Witness ==
    /\ Present(parsed)
    /\ Search("single_year", text) > Search("decade", text)
    /\ Search("decade", text) > 0
    /\ parsed[1].filters.year_min = parsed[1].filters.year_max
    /\ Present(parsed[1].filters.year_min)

\* the tokens the three passes matched, each in what the pass before left
YearMatched(s) == Matched(YearPass(s), s)

RatingMatchedIn(ge) == Matched(RatingPass(ge), ge)

Disjoint(a, b, c) == a \cap b = {} /\ a \cap c = {} /\ b \cap c = {}

SameRating(f, r) ==
    f.rating_min = r.rating_min /\ f.rating_max = r.rating_max

\* f holds the genre ge found in y, the year pass's residual of s, by
\* entry e of the tokens or sy of the synonyms, and the rating found in
\* the genre pass's residual
ThreadedRating(f, s, y, e, sy, ge) ==
    /\ f.genre = ge.genre
    /\ SameRating(f, extract_rating(ge.cleaned))
    /\ Disjoint(YearMatched(s), GenreMatched(e, sy, y),
                RatingMatchedIn(ge.cleaned))

ThreadedGenre(f, s, y, e, sy) ==
    ThreadedRating(f, s, y, e, sy, GenreOfEntries(e, sy, y))

Threaded(f, s, y) ==
    ThreadedGenre(f, s, y, FirstEntry(genre_tokens, y),
                  FirstEntry(genre_synonyms, y))

\* C28: text consumed by an earlier pass is never matched again by a later
\* one: the genre is found in what the year pass left, the rating in what
\* the genre pass left, and no number taken as a year bound is also taken
\* as a rating bound.
C28_ConsumedOnce ==
    Present(parsed) /\ NoRepeats(Tokenize(text)) =>
        Threaded(parsed[1].filters, text, extract_year_range(text).cleaned)

\* a year range parsed, which as plain numbers is a rating range too
C28_Witness ==
    /\ Present(parsed) /\ NoRepeats(Tokenize(text))
    /\ Search("year_range", text) > 0
    /\ Search("rating_range", text) > 0
    /\ Present(parsed[1].filters.year_min)
    /\ ~Present(parsed[1].filters.rating_min)

\* the search has come to its end otherwise than by a collaborator's own
\* failure
SearchOver == pc \in {"done", "raised"} /\ ~CollaboratorFailed

\* C29: with bm25.enable_filters false, a lexical or hybrid search
\* completes, and the filters extracted from the query are not given to the
\* lexical collaborator to constrain its results: the flag decides.
C29_FiltersOff ==
    strategy \in {"bm25", "fusion"} /\ ~config.bm25_enable_filters
    /\ SearchOver =>
        /\ pc = "done" /\ Present(output)
        /\ Len(bm25_calls) = 1
        /\ \A i \in 1..Len(bm25_calls) : bm25_calls[i].filters = None

Initialised(c) == c \in Components(strategy)

\* C30: for a strategy load_config accepts, the lexical parser and indexer
\* exist iff the strategy is bm25 or fusion, the semantic parser, embedder
\* and indexer iff it is semantic or fusion, the fusion engine iff it is
\* fusion, and load_indices and search use initialised components only; any
\* other strategy is rejected with an error and reaches no collaborator.
C30_ComponentsMatch ==
    /\ strategy \in valid_strategies =>
          /\ \A c \in {"bm25_parser", "bm25_indexer"} :
                Initialised(c) <=> strategy \in {"bm25", "fusion"}
          /\ \A c \in {"semantic_parser", "embedder", "semantic_indexer"} :
                Initialised(c) <=> strategy \in {"semantic", "fusion"}
          /\ Initialised("fusion") <=> strategy = "fusion"
          /\ LoadIndicesUses(strategy) \subseteq Components(strategy)
          /\ Uses(pc, strategy) \subseteq Components(strategy)
          /\ load_config(strategy) # "ValueError"
    /\ strategy \notin valid_strategies =>
          /\ load_config(strategy) = "ValueError"
          /\ pc \in {"idle", "raised"}
          /\ pc = "raised" => Present(error) /\ error[1].type = "ValueError"
          /\ bm25_call = "none" /\ semantic_call = "none"
          /\ bm25_calls = << >> /\ semantic_calls = << >> /\ fuse_calls = << >>
          /\ output = None

\* a hybrid-mode search that has used both parsers and is about to call
\* the lexical indexer
C30_Witness ==
    /\ strategy = "fusion" /\ pc = "call_bm25"
    /\ Present(bm25_filters) /\ Present(semantic_filters)
    /\ Cardinality(Components(strategy)) = 6

====
